---- MODULE Spec2Model ----
(***************************************************************************)
(* Pool-data acquisition of the arbitrage engine: TokenFetcher             *)
(* (src/chain/token_fetch.rs), the Pump and Raydium adapters               *)
(* (src/pump/unified.rs, src/raydium/unified.rs) and the DexRegistry       *)
(* (src/traits.rs).                                                        *)
(*                                                                         *)
(* Strings are sequences of one-character strings.  A Pubkey is written as *)
(* its base58 string.  Time is in milliseconds.                            *)
(***************************************************************************)
EXTENDS Integers, Sequences, FiniteSets, TLC

VARIABLES
    config,       \* TokenFetcher.config
    cache,        \* TokenFetcher.cache: cache key -> CacheEntry
    now,          \* the monotonic clock read by Instant::now(), in ms
    pc,           \* position of the (single, &mut self) call in progress
    args,         \* the arguments of the call in progress / last call
    mint_pubkey,  \* initialize_pool_data: mint_pubkey
    attempt,      \* fetch_account_with_retry: attempt
    last_error,   \* fetch_account_with_retry: last_error
    pool_data,    \* initialize_pool_data: pool_data
    dex_i,        \* index into pool_configs of the exchange being fetched
    addr_i,       \* index into pool_addresses inside fetch_pools
    pools,        \* fetch_pools: pools
    result,       \* what the last call returned
    trace,        \* history: the reads, delays and cache writes of the call
    calls,        \* history: number of calls started
    lastOk,       \* history: per (mint, wallet), the last aggregate a fetching call returned
    maint,        \* history: the last operation, when it was clear_expired_cache
                  \* or get_cache_stats (with what it returned)
    registry,     \* a DexRegistry of its own: DexRegistry.dexes
    registered,   \* history: the adapters passed to registry.register, in order
    account_data, \* parse_pool_account: $account_data, a byte buffer
    offset_map,   \* parse_pool_account: what $offset_map.iter() yields, in order
    parse_result  \* what the last expansion of parse_pool_account evaluated to

vars == <<config, cache, now, pc, args, mint_pubkey, attempt, last_error,
          pool_data, dex_i, addr_i, pools, result, trace, calls, lastOk,
          maint, registry, registered, account_data, offset_map, parse_result>>

(***************************** bounds **************************************)
MaxRetries == 2       \* config.max_retries ranges over 0..MaxRetries
MaxCalls == 1         \* calls of initialize_pool_data per behaviour of Spec
MaxCacheCalls == 2    \* calls of initialize_pool_data per behaviour of SpecCache
MaxTicks == 4         \* the free-running clock of SpecCache stops after these ticks
MaxConvertPools == 3  \* descriptors per fetch_pools result in SpecConvert
MaxRegistered == 3    \* calls of DexRegistry::register in SpecRegistry
MaxBufLen == 40       \* bytes of $account_data in SpecParse
MaxOffsetEntries == 2 \* entries of $offset_map in SpecParse

(************************ Option and Result ********************************)
None == [some |-> FALSE]
Some(x) == [some |-> TRUE, v |-> x]
Ok(x) == [ok |-> TRUE, v |-> x]
Err(e) == [ok |-> FALSE, e |-> e]

\* HashMap::get
MapGet(m, k) == IF k \in DOMAIN m THEN Some(m[k]) ELSE None
\* HashMap::insert
MapInsert(m, k, x) == [j \in DOMAIN m \cup {k} |-> IF j = k THEN x ELSE m[j]]
EmptyMap == <<>>

(***************************** addresses ***********************************)
\* The base58 alphabet has no "_", "0", "O", "I" or "l".
Base58Chars ==
    {"1", "A", "B", "C", "D", "P", "R", "S", "T", "W", "Z",
     "a", "b", "c", "d", "e", "f", "g", "h", "k"}

\* Pubkey::from_str: Ok for a base58 string of a key's length, Err otherwise.
PubkeyFromStr(s) ==
    IF Len(s) = 1 /\ s[1] \in Base58Chars
    THEN Ok(s)
    ELSE Err([kind |-> "ParsePubkeyError", input |-> s])

\* Pubkey::default(): the all-zero key, whose base58 string is all "1".
PubkeyDefault == <<"1">>

spl_token_ID == <<"T">>
TOKEN_2022_PROGRAM_ID == <<"Z">>
sol_mint == <<"S">>
pump_program_id == <<"P">>
raydium_program_id == <<"R">>
pump_fee_wallet == <<"W">>

\* spl_associated_token_account::get_associated_token_address: a derived
\* address, a function of (wallet, mint) alone.
get_associated_token_address(wallet, m) == <<"ata">> \o wallet \o m

(************************* the ledger (Account Reader) **********************)
\* Vault accounts of a pool: side 1 is the base/coin side, side 2 the quote/pc side.
Vault(pool, side) == pool \o <<side>>

PumpData(pool, base, quote) ==
    [layout |-> "pump", base_mint |-> base, quote_mint |-> quote,
     pool_base_token_account |-> Vault(pool, "1"),
     pool_quote_token_account |-> Vault(pool, "2"),
     coin_creator_vault_authority |-> <<"C">>]

RaydiumData(pool, coin, pc_) ==
    [layout |-> "raydium", coin_mint |-> coin, pc_mint |-> pc_,
     coin_vault |-> Vault(pool, "1"), pc_vault |-> Vault(pool, "2")]

Garbage == [layout |-> "garbage"]

Account(owner, data) == [owner |-> owner, data |-> data]

\* The accounts that exist.  Mints A (standard token program), B (Token-2022)
\* and C (owned by the system program); pools a, b, e, h owned by the Pump
\* program and c, d, g owned by the Raydium program; f and k are owned by
\* the system program and hold a well-formed Pump and Raydium layout.
ChainAddrs == {<<"A">>, <<"B">>, <<"C">>,
               <<"a">>, <<"b">>, <<"c">>, <<"d">>, <<"e">>, <<"f">>, <<"g">>,
               <<"h">>, <<"k">>}

Chain(pk) ==
    CASE pk = <<"A">> -> Account(spl_token_ID, Garbage)
      [] pk = <<"B">> -> Account(TOKEN_2022_PROGRAM_ID, Garbage)
      [] pk = <<"C">> -> Account(PubkeyDefault, Garbage)
      [] pk = <<"a">> -> Account(pump_program_id, PumpData(pk, <<"A">>, sol_mint))
      [] pk = <<"b">> -> Account(pump_program_id, PumpData(pk, sol_mint, <<"A">>))
      [] pk = <<"e">> -> Account(pump_program_id, Garbage)
      [] pk = <<"f">> -> Account(PubkeyDefault, PumpData(pk, <<"A">>, sol_mint))
      [] pk = <<"k">> -> Account(PubkeyDefault, RaydiumData(pk, sol_mint, <<"A">>))
      [] pk = <<"h">> -> Account(pump_program_id, PumpData(pk, <<"B">>, <<"A">>))
      [] pk = <<"c">> -> Account(raydium_program_id, RaydiumData(pk, <<"A">>, sol_mint))
      [] pk = <<"d">> -> Account(raydium_program_id, RaydiumData(pk, sol_mint, <<"A">>))
      [] pk = <<"g">> -> Account(raydium_program_id, RaydiumData(pk, <<"A">>, <<"B">>))

\* GetAccountOutcomes for a read that never returns.
GetAccountOutcomes_NeverReturns(pk) == {}

\* RpcClient::get_account: every outcome one read of pk can have: the
\* account or "AccountNotFound", or a failure of the transport.
GetAccountOutcomes(pk) ==
    {Err("Timeout"), IF pk \in ChainAddrs THEN Ok(Chain(pk)) ELSE Err("AccountNotFound")}

(***************************** decoding ************************************)
\* PumpAmmInfo::load_checked / RaydiumAmmInfo::load_checked: the layout is
\* validated before any field is trusted.
PumpAmmInfo_load_checked(data) ==
    IF data.layout = "pump" THEN Ok(data) ELSE Err([kind |-> "PoolParse"])

RaydiumAmmInfo_load_checked(data) ==
    IF data.layout = "raydium" THEN Ok(data) ELSE Err([kind |-> "PoolParse"])

(************************* PumpDex (src/pump/unified.rs) *******************)
PoolInfo(pool_address, token_mint, base_mint, token_vault, base_vault, fee_wallet, additional_accounts) ==
    [pool_address |-> pool_address, token_mint |-> token_mint,
     base_mint |-> base_mint, token_vault |-> token_vault,
     base_vault |-> base_vault, fee_wallet |-> fee_wallet,
     additional_accounts |-> additional_accounts]

\* The (token_vault, base_vault) pair chosen by the side holding native SOL.
PumpVaults(amm_info) ==
    IF sol_mint = amm_info.base_mint
    THEN <<amm_info.pool_base_token_account, amm_info.pool_quote_token_account>>
    ELSE IF sol_mint = amm_info.quote_mint
    THEN <<amm_info.pool_quote_token_account, amm_info.pool_base_token_account>>
    ELSE <<amm_info.pool_base_token_account, amm_info.pool_quote_token_account>>

\* The (token_mint_final, base_mint) pair chosen by the queried mint.
PumpMints(amm_info, token_mint) ==
    IF token_mint = amm_info.base_mint
    THEN <<amm_info.base_mint, amm_info.quote_mint>>
    ELSE <<amm_info.quote_mint, amm_info.base_mint>>

\* PumpOwnerOk without the ownership check.
PumpOwnerOk_Unchecked(account) == TRUE

PumpOwnerOk(account) == account.owner = pump_program_id

\* PumpDex::fetch_single_pool, after the address has parsed; rpc is what
\* get_account returned.
PumpDex_fetch_single_pool(pool_pubkey, token_mint, rpc) ==
    IF ~rpc.ok THEN Err([kind |-> "Rpc", e |-> rpc.e])
    ELSE IF ~PumpOwnerOk(rpc.v)
    THEN Err([kind |-> "NotOwnedByPump", pool_address |-> pool_pubkey])
    ELSE LET parsed == PumpAmmInfo_load_checked(rpc.v.data) IN
         IF ~parsed.ok THEN Err(parsed.e)
         ELSE LET amm_info == parsed.v
                  vaults == PumpVaults(amm_info)
                  fee_token_wallet ==
                      get_associated_token_address(pump_fee_wallet, amm_info.quote_mint)
                  coin_creator_vault_ata ==
                      get_associated_token_address(
                          amm_info.coin_creator_vault_authority, amm_info.quote_mint)
                  mints == PumpMints(amm_info, token_mint)
                  additional_accounts ==
                      MapInsert(EmptyMap, "coin_creator_vault_ata", coin_creator_vault_ata)
              IN Ok(PoolInfo(pool_pubkey, mints[1], mints[2], vaults[1], vaults[2],
                             Some(fee_token_wallet), additional_accounts))

(********************** RaydiumDex (src/raydium/unified.rs) ****************)
RaydiumVaults(amm_info) ==
    IF sol_mint = amm_info.coin_mint
    THEN <<amm_info.coin_vault, amm_info.pc_vault>>
    ELSE IF sol_mint = amm_info.pc_mint
    THEN <<amm_info.pc_vault, amm_info.coin_vault>>
    ELSE <<amm_info.coin_vault, amm_info.pc_vault>>

\* RaydiumMints taking the on-chain order as it is.
RaydiumMints_OnChainOrder(amm_info, token_mint) ==
    <<amm_info.coin_mint, amm_info.pc_mint>>

RaydiumMints(amm_info, token_mint) ==
    IF token_mint = amm_info.coin_mint
    THEN <<amm_info.coin_mint, amm_info.pc_mint>>
    ELSE <<amm_info.pc_mint, amm_info.coin_mint>>

RaydiumOwnerOk(account) == account.owner = raydium_program_id

RaydiumDex_fetch_single_pool(pool_pubkey, token_mint, rpc) ==
    IF ~rpc.ok THEN Err([kind |-> "Rpc", e |-> rpc.e])
    ELSE IF ~RaydiumOwnerOk(rpc.v)
    THEN Err([kind |-> "NotOwnedByRaydium", pool_address |-> pool_pubkey])
    ELSE LET parsed == RaydiumAmmInfo_load_checked(rpc.v.data) IN
         IF ~parsed.ok THEN Err(parsed.e)
         ELSE LET amm_info == parsed.v
                  vaults == RaydiumVaults(amm_info)
                  mints == RaydiumMints(amm_info, token_mint)
              IN Ok(PoolInfo(pool_pubkey, mints[1], mints[2], vaults[1], vaults[2],
                             None, EmptyMap))

(************************* DexRegistry (src/traits.rs) *********************)
PumpDex == [name |-> "pump", program_id |-> pump_program_id]
RaydiumDex == [name |-> "raydium", program_id |-> raydium_program_id]

DexRegistry_new == EmptyMap

\* DexRegistry_register keeping the adapter a name already has.
DexRegistry_register_KeepFirst(dexes, dex) ==
    IF dex.name \in DOMAIN dexes THEN dexes ELSE MapInsert(dexes, dex.name, dex)

DexRegistry_register(dexes, dex) == MapInsert(dexes, dex.name, dex)
DexRegistry_get(dexes, name) == MapGet(dexes, name)

\* DexRegistry::all_dexes: the values of the map, in no particular order: a
\* bag, each adapter with the number of times it occurs.
DexRegistry_all_dexes(dexes) ==
    [d \in {dexes[n] : n \in DOMAIN dexes} |->
        Cardinality({n \in DOMAIN dexes : dexes[n] = d})]

\* dex.fetch_single_pool, dispatched on the adapter found in the registry.
Dex_fetch_single_pool(dex, pool_pubkey, token_mint, rpc) ==
    IF dex.name = "pump"
    THEN PumpDex_fetch_single_pool(pool_pubkey, token_mint, rpc)
    ELSE RaydiumDex_fetch_single_pool(pool_pubkey, token_mint, rpc)

(******************* TokenFetcher (src/chain/token_fetch.rs) ***************)
\* format!("{}_{}", mint, wallet_account)
CacheKey(mint, wallet_account) == mint \o <<"_">> \o wallet_account

\* Duration::as_secs: whole seconds, the fraction dropped.
as_secs(ms) == ms \div 1000

\* EntryLive with the age taken in milliseconds (as_millis for as_secs).
EntryLive_Millis(entry, t) == t - entry.timestamp < config.cache_ttl_seconds

\* EntryLive with <= for <.
EntryLive_Inclusive(entry, t) == as_secs(t - entry.timestamp) <= config.cache_ttl_seconds

\* The cache check's test that an entry is served.
EntryLive(entry, t) == as_secs(t - entry.timestamp) < config.cache_ttl_seconds

\* EntryRetained keeping an entry through the second at which it expires.
EntryRetained_Inclusive(entry, t) ==
    as_secs(t - entry.timestamp) <= config.cache_ttl_seconds

\* The test of clear_expired_cache that an entry is kept.
EntryRetained(entry, t) == as_secs(t - entry.timestamp) < config.cache_ttl_seconds

\* cache.retain(..) of clear_expired_cache on the map m at time t.
CacheRetain(m, t) == [k \in {j \in DOMAIN m : EntryRetained(m[j], t)} |-> m[k]]

\* EntryExpired with > for >=.
EntryExpired_Strict(entry, t) == as_secs(t - entry.timestamp) > config.cache_ttl_seconds

\* The test of get_cache_stats that an entry counts as expired.
EntryExpired(entry, t) == as_secs(t - entry.timestamp) >= config.cache_ttl_seconds

\* The cache check of initialize_pool_data.
CacheCheck(key) ==
    IF config.enable_caching
    THEN LET found == MapGet(cache, key) IN
         IF found.some /\ EntryLive(found.v, now) THEN Some(found.v.data) ELSE None
    ELSE None

\* CacheWrite without the test of enable_caching.
CacheWrite_Unconditional(key, data) ==
    MapInsert(cache, key, [data |-> data, timestamp |-> now])

\* CacheWrite storing the aggregate as it was before the pools were added.
CacheWrite_InitialAggregate(key, data) ==
    IF config.enable_caching
    THEN MapInsert(cache, key,
                   [data |-> [data EXCEPT !.pump_pools = <<>>, !.raydium_pools = <<>>],
                    timestamp |-> now])
    ELSE cache

\* CacheWrite sweeping the expired entries as it writes.
CacheWrite_Sweeping(key, data) ==
    IF config.enable_caching
    THEN MapInsert(CacheRetain(cache, now),
                   key, [data |-> data, timestamp |-> now])
    ELSE cache

\* The cache write of initialize_pool_data.
CacheWrite(key, data) ==
    IF config.enable_caching
    THEN MapInsert(cache, key, [data |-> data, timestamp |-> now])
    ELSE cache

\* MintPoolData::new: an empty aggregate for (mint, wallet, token program).
MintPoolData_new(mint, wallet_account, token_program) ==
    Ok([mint |-> mint, wallet_account |-> wallet_account,
        token_program |-> token_program,
        pump_pools |-> <<>>, raydium_pools |-> <<>>])

\* determine_token_program with the Token-2022 arm returning spl_token::ID.
determine_token_program_Copy(mint_account, mint) ==
    IF mint_account.owner = spl_token_ID THEN Ok(spl_token_ID)
    ELSE IF mint_account.owner = TOKEN_2022_PROGRAM_ID THEN Ok(spl_token_ID)
    ELSE Err([kind |-> "UnknownTokenProgram", mint |-> mint])

\* determine_token_program falling back to spl_token::ID for any other owner.
determine_token_program_Fallback(mint_account, mint) ==
    IF mint_account.owner = TOKEN_2022_PROGRAM_ID THEN Ok(TOKEN_2022_PROGRAM_ID)
    ELSE Ok(spl_token_ID)

determine_token_program(mint_account, mint) ==
    IF mint_account.owner = spl_token_ID THEN Ok(spl_token_ID)
    ELSE IF mint_account.owner = TOKEN_2022_PROGRAM_ID THEN Ok(TOKEN_2022_PROGRAM_ID)
    ELSE Err([kind |-> "UnknownTokenProgram", mint |-> mint])

\* Option::unwrap_or_default on a Pubkey.
unwrap_or_default(o) == IF o.some THEN o.v ELSE PubkeyDefault

\* The PumpPool record built from one PoolInfo; Err when the required
\* auxiliary key is missing.
ToPumpPool(pool_info) ==
    LET coin_creator_vault_ata ==
            MapGet(pool_info.additional_accounts, "coin_creator_vault_ata")
    IN IF ~coin_creator_vault_ata.some
       THEN Err([kind |-> "MissingCoinCreatorVaultAta"])
       ELSE Ok([pool |-> pool_info.pool_address,
                token_vault |-> pool_info.token_vault,
                sol_vault |-> pool_info.base_vault,
                fee_token_wallet |-> unwrap_or_default(pool_info.fee_wallet),
                coin_creator_vault_ata |-> coin_creator_vault_ata.v,
                coin_creator_vault_authority |->
                    unwrap_or_default(MapGet(pool_info.additional_accounts,
                                             "coin_creator_vault_authority")),
                token_mint |-> pool_info.token_mint,
                base_mint |-> pool_info.base_mint])

ToRaydiumPool(pool_info) ==
    [pool |-> pool_info.pool_address,
     token_vault |-> pool_info.token_vault,
     sol_vault |-> pool_info.base_vault,
     token_mint |-> pool_info.token_mint,
     base_mint |-> pool_info.base_mint]

\* The "pump" arm: push one record per descriptor, `?` on the first failure.
RECURSIVE AddPumpPools(_, _)
AddPumpPools(pd, ps) ==
    IF ps = <<>> THEN Ok(pd)
    ELSE LET r == ToPumpPool(Head(ps)) IN
         IF ~r.ok THEN Err(r.e)
         ELSE AddPumpPools([pd EXCEPT !.pump_pools = Append(@, r.v)], Tail(ps))

RECURSIVE AddRaydiumPools(_, _)
AddRaydiumPools(pd, ps) ==
    IF ps = <<>> THEN Ok(pd)
    ELSE AddRaydiumPools(
             [pd EXCEPT !.raydium_pools = Append(@, ToRaydiumPool(Head(ps)))], Tail(ps))

\* convert_and_add_pools failing when an exchange returned no pool.
convert_and_add_pools_EmptyFails(pd, dex_name, ps) ==
    IF ps = <<>> THEN Err([kind |-> "NoPools"])
    ELSE IF dex_name = "pump" THEN AddPumpPools(pd, ps)
    ELSE IF dex_name = "raydium" THEN AddRaydiumPools(pd, ps)
    ELSE Ok(pd)

convert_and_add_pools(pd, dex_name, ps) ==
    IF dex_name = "pump" THEN AddPumpPools(pd, ps)
    ELSE IF dex_name = "raydium" THEN AddRaydiumPools(pd, ps)
    ELSE Ok(pd)

\* pool_configs with the two exchanges in the other order.
pool_configs_RaydiumFirst(a) ==
    << [dex_name |-> "raydium", pool_list |-> a.raydium_pools],
       [dex_name |-> "pump", pool_list |-> a.pump_pools] >>

\* pool_configs of initialize_pool_data, in its fixed order.
pool_configs(a) ==
    << [dex_name |-> "pump", pool_list |-> a.pump_pools],
       [dex_name |-> "raydium", pool_list |-> a.raydium_pools] >>

\* The registry initialize_pool_data builds.
dex_registry ==
    DexRegistry_register(DexRegistry_register(DexRegistry_new, PumpDex), RaydiumDex)

\* Lines 132-133: whether fetch_pools is called for entry i of pool_configs:
\* a list is given and its adapter is registered.
IsFetched(a, i) ==
    LET cfg == pool_configs(a)[i] IN
    /\ cfg.pool_list.some
    /\ DexRegistry_get(dex_registry, cfg.dex_name).some

\* Whether entry i of pool_configs leads to reads: fetch_pools is called
\* with at least one address.
HasWork(a, i) == IsFetched(a, i) /\ pool_configs(a)[i].pool_list.v # <<>>

\* The event of one call of fetch_pools.
FetchPoolsEvent(a, i) ==
    [ev |-> "fetch_pools", dex |-> pool_configs(a)[i].dex_name,
     n |-> Len(pool_configs(a)[i].pool_list.v)]

\* The event of fetch_pools returning res.
FetchPoolsReturned(name, res) ==
    [ev |-> "fetch_pools_returned", dex |-> name, res |-> res]

\* fetch_pools with the batch emptied by a failing address.
FetchPoolsPush_DropBatch(ps, fetched) ==
    IF fetched.ok THEN Append(ps, fetched.v) ELSE <<>>

\* The match in the loop of fetch_pools: a descriptor is pushed, a failure
\* is logged and skipped.
FetchPoolsPush(ps, fetched) ==
    IF fetched.ok THEN Append(ps, fetched.v) ELSE ps

\* The calls of fetch_pools for entries lo..hi, in order; a call with no
\* address returns at once with no pool.
RECURSIVE FetchPoolsEvents(_, _, _)
FetchPoolsEvents(a, lo, hi) ==
    IF lo > hi THEN <<>>
    ELSE (IF ~IsFetched(a, lo) THEN <<>>
          ELSE IF HasWork(a, lo) THEN <<FetchPoolsEvent(a, lo)>>
          ELSE <<FetchPoolsEvent(a, lo),
                 FetchPoolsReturned(pool_configs(a)[lo].dex_name, Ok(<<>>))>>)
             \o FetchPoolsEvents(a, lo + 1, hi)

\* The first entry of pool_configs at or after i that leads to reads, 0 if none.
NextDex(a, i) ==
    LET later == {j \in i..Len(pool_configs(a)) : HasWork(a, j)} IN
    IF later = {} THEN 0 ELSE CHOOSE j \in later : \A k \in later : j <= k

(***************************** inputs **************************************)
\* Mint strings a caller may pass: A, B, C, D and a parse as addresses ("D"
\* has no account, "a" is a pool account), "A_B" does not.
MintStrs == {<<"A">>, <<"B">>, <<"C">>, <<"D">>, <<"a">>, <<"A", "_", "B">>}

\* Wallet strings a caller may pass.
Wallets == {<<"W">>, <<"B", "_", "W">>}

\* The (pump_pools, raydium_pools) arguments a caller may pass.  "_" is no
\* address and "x" has no account; c is foreign to the Pump adapter, a and b
\* to the Raydium adapter, f and k to both; e is undecodable.
PoolArgs ==
    { [pump_pools |-> None, raydium_pools |-> None],
      [pump_pools |-> Some(<< <<"a">>, <<"c">> >>), raydium_pools |-> Some(<< <<"d">>, <<"g">> >>)],
      [pump_pools |-> Some(<< <<"f">>, <<"b">> >>), raydium_pools |-> Some(<< <<"a">>, <<"c">> >>)],
      [pump_pools |-> Some(<< <<"e">>, <<"h">> >>), raydium_pools |-> Some(<< <<"_">>, <<"g">> >>)],
      [pump_pools |-> Some(<<>>), raydium_pools |-> Some(<< <<"d">>, <<"k">> >>)],
      [pump_pools |-> Some(<< <<"x">>, <<"a">> >>), raydium_pools |-> None] }

\* The inputs of the calls of SpecCache.
CacheMintStrs == {<<"A">>, <<"C">>, <<"A", "_", "B">>}
CachePoolArgs ==
    { [pump_pools |-> None, raydium_pools |-> None],
      [pump_pools |-> Some(<< <<"a">> >>), raydium_pools |-> Some(<< <<"c">> >>)] }

\* Time passes in steps of this many milliseconds.
TickSteps == {500}

\* The configurations a TokenFetcher may be built with.
Configs ==
    [max_retries : 0..MaxRetries, retry_delay_ms : {500},
     enable_caching : BOOLEAN, cache_ttl_seconds : {1}]

CacheConfigs ==
    [max_retries : {2}, retry_delay_ms : {500},
     enable_caching : BOOLEAN, cache_ttl_seconds : {1, 2}]

NoResult == [pending |-> TRUE]
NoMaint == [op |-> "none"]
NoArgs == [mint |-> <<>>, wallet_account |-> <<>>,
           pump_pools |-> None, raydium_pools |-> None]

(***************************** the state machine ***************************)
NotParsed == [pending |-> TRUE]

\* No expansion of parse_pool_account has been given anything to decode.
NoParseInput ==
    /\ account_data = <<>>
    /\ offset_map = <<>>
    /\ parse_result = NotParsed

\* A TokenFetcher after TokenFetcher::new, no call started.
InitFetcher(configs) ==
    /\ config \in configs
    /\ cache = EmptyMap
    /\ now = 0
    /\ pc = "idle"
    /\ args = NoArgs
    /\ mint_pubkey = <<>>
    /\ attempt = 0
    /\ last_error = None
    /\ pool_data = None
    /\ dex_i = 0
    /\ addr_i = 0
    /\ pools = <<>>
    /\ result = NoResult
    /\ trace = <<>>
    /\ calls = 0
    /\ lastOk = [p \in MintStrs \X Wallets |-> None]
    /\ maint = NoMaint
    /\ registry = DexRegistry_new
    /\ registered = <<>>

InitWith(configs) == InitFetcher(configs) /\ NoParseInput

\* A step of initialize_pool_data, or the clock: no cache maintenance, and
\* the separate registry is not touched.
NoMaintenance ==
    /\ maint' = NoMaint
    /\ UNCHANGED <<registry, registered, account_data, offset_map, parse_result>>

\* The call returns res; its locals are dropped.
Return(res, tr) ==
    /\ pc' = "idle"
    /\ result' = res
    /\ trace' = tr
    /\ mint_pubkey' = <<>>
    /\ attempt' = 0
    /\ last_error' = None
    /\ pool_data' = None
    /\ dex_i' = 0
    /\ addr_i' = 0
    /\ pools' = <<>>

\* Lines 148-165: the cache write and the successful return.
Finish(a, pd, tr) ==
    /\ cache' = CacheWrite(CacheKey(a.mint, a.wallet_account), pd)
    /\ lastOk' = [lastOk EXCEPT ![<<a.mint, a.wallet_account>>] =
                     Some([data |-> pd, timestamp |-> now])]
    /\ Return(Ok(pd),
              IF config.enable_caching THEN Append(tr, [ev |-> "cache_write"]) ELSE tr)

\* Lines 131-146 from entry i of pool_configs on, up to the next read.
FetchFrom(a, i, pd, tr) ==
    LET nd == NextDex(a, i) IN
    IF nd = 0 THEN Finish(a, pd, tr \o FetchPoolsEvents(a, i, Len(pool_configs(a))))
    ELSE /\ pc' = "fetch_pools"
         /\ pool_data' = Some(pd)
         /\ dex_i' = nd
         /\ addr_i' = 1
         /\ pools' = <<>>
         /\ trace' = tr \o FetchPoolsEvents(a, i, nd)
         /\ UNCHANGED <<cache, lastOk, result, mint_pubkey, attempt, last_error>>

\* Lines 112-117 and on: what follows a successful mint account read.
AfterMintAccount(a, mint_account, tr) ==
    LET token_program == determine_token_program(mint_account, a.mint) IN
    IF ~token_program.ok
    THEN Return(Err(token_program.e), tr) /\ UNCHANGED <<cache, lastOk>>
    ELSE LET pd == MintPoolData_new(a.mint, a.wallet_account, token_program.v) IN
         IF ~pd.ok
         THEN Return(Err(pd.e), tr) /\ UNCHANGED <<cache, lastOk>>
         ELSE FetchFrom(a, 1, pd.v, tr)

\* Lines 134-143: what follows fetch_pools returning fetched for entry i of
\* pool_configs.
AfterFetchPools(a, i, pd, fetched, tr) ==
    IF fetched.ok
    THEN LET added == convert_and_add_pools(pd, pool_configs(a)[i].dex_name, fetched.v) IN
         IF ~added.ok
         THEN Return(Err(added.e), tr) /\ UNCHANGED <<cache, lastOk>>
         ELSE FetchFrom(a, i + 1, added.v, tr)
    ELSE FetchFrom(a, i + 1, pd, tr)

\* Line 182: the length of the delay after attempt att, in ms.
RetryDelay(att) == config.retry_delay_ms

\* ShouldDelay with a delay after the last attempt too.
ShouldDelay_AfterLast(att) == att < config.max_retries

\* ShouldDelay with the first delay skipped.
ShouldDelay_SkipFirst(att) == 0 < att /\ att < config.max_retries - 1

\* Line 177: whether a failed attempt is followed by a delay (max_retries - 1
\* does not underflow).
ShouldDelay(att) == att < config.max_retries - 1

\* a - b on u32: None when it underflows.
u32_sub(a, b) == IF a >= b THEN Some(a - b) ELSE None

\* What an underflowing subtraction does, by build: a panic with overflow
\* checks, a wrap to a + 2^32 - b without.
OverflowBuilds == {"checked", "wrapping"}

\* InRange of a loop that tests after its first pass.
InRange_AtLeastOnce(att) == att = 0 \/ att < config.max_retries

\* Line 172: whether att is in the range 0..max_retries of the loop.
InRange(att) == att < config.max_retries

\* The error fetch_account_with_retry ends with.
FetchFailed(pubkey, err) ==
    Err([kind |-> "FetchAccountFailed", pubkey |-> pubkey,
         attempts |-> config.max_retries, last_error |-> err])

\* initialize_pool_data up to its first account read.
BeginCall(mint, wallet_account, pa) ==
    LET a == [mint |-> mint, wallet_account |-> wallet_account,
              pump_pools |-> pa.pump_pools, raydium_pools |-> pa.raydium_pools]
        cached == CacheCheck(CacheKey(mint, wallet_account))
        parsed == PubkeyFromStr(mint)
    IN /\ pc = "idle"
       /\ calls' = calls + 1
       /\ args' = a
       /\ UNCHANGED <<config, now>>
       /\ NoMaintenance
       /\ IF cached.some
          THEN Return(Ok(cached.v), <<[ev |-> "cache_hit"]>>) /\ UNCHANGED <<cache, lastOk>>
          ELSE IF ~parsed.ok
          THEN Return(Err(parsed.e), <<>>) /\ UNCHANGED <<cache, lastOk>>
          ELSE IF ~InRange(0)
          THEN Return(FetchFailed(parsed.v, None), <<>>) /\ UNCHANGED <<cache, lastOk>>
          ELSE /\ pc' = "fetch_account"
               /\ mint_pubkey' = parsed.v
               /\ attempt' = 0
               /\ last_error' = None
               /\ result' = NoResult
               /\ trace' = <<>>
               /\ UNCHANGED <<cache, lastOk, pool_data, dex_i, addr_i, pools>>

\* One pass of the loop of fetch_account_with_retry: one get_account.
GetMintAccount ==
    /\ pc = "fetch_account"
    /\ InRange(attempt)
    /\ \E rpc \in GetAccountOutcomes(mint_pubkey) :
       \E build \in (IF u32_sub(config.max_retries, 1).some
                     THEN {"checked"} ELSE OverflowBuilds) :
         \* underflow: line 177 is reached and max_retries - 1 underflows
         LET underflow == ~rpc.ok /\ ~u32_sub(config.max_retries, 1).some
             tr == Append(trace, [ev |-> "read", rpc |-> rpc, underflow |-> underflow])
         IN
         IF rpc.ok
         THEN AfterMintAccount(args, rpc.v, tr)
         ELSE IF underflow /\ build = "checked"
         THEN /\ pc' = "panicked"
              /\ last_error' = Some(rpc.e)
              /\ trace' = tr
              /\ UNCHANGED <<cache, lastOk, result, mint_pubkey, attempt,
                             pool_data, dex_i, addr_i, pools>>
         ELSE IF underflow \/ ShouldDelay(attempt)
         THEN /\ pc' = "sleep"
              /\ last_error' = Some(rpc.e)
              /\ trace' = tr
              /\ UNCHANGED <<cache, lastOk, result, mint_pubkey, attempt,
                             pool_data, dex_i, addr_i, pools>>
         ELSE IF InRange(attempt + 1)
         THEN /\ attempt' = attempt + 1
              /\ last_error' = Some(rpc.e)
              /\ trace' = tr
              /\ UNCHANGED <<cache, lastOk, pc, result, mint_pubkey,
                             pool_data, dex_i, addr_i, pools>>
         ELSE Return(FetchFailed(mint_pubkey, Some(rpc.e)), tr)
                  /\ UNCHANGED <<cache, lastOk>>
    /\ UNCHANGED <<config, now, args, calls>>
    /\ NoMaintenance

\* sleep(Duration::from_millis(retry_delay_ms)) and the next loop pass.
RetrySleep ==
    /\ pc = "sleep"
    /\ now' = now + RetryDelay(attempt)
    /\ LET tr == Append(trace, [ev |-> "delay", ms |-> RetryDelay(attempt)]) IN
       IF InRange(attempt + 1)
       THEN /\ pc' = "fetch_account"
            /\ attempt' = attempt + 1
            /\ trace' = tr
            /\ UNCHANGED <<cache, lastOk, result, mint_pubkey, last_error,
                           pool_data, dex_i, addr_i, pools>>
       ELSE Return(FetchFailed(mint_pubkey, last_error), tr)
                /\ UNCHANGED <<cache, lastOk>>
    /\ UNCHANGED <<config, args, calls>>
    /\ NoMaintenance

\* One pass of the loop of fetch_pools: fetch_single_pool on one address;
\* after the last address, fetch_pools returns and the call goes on.
FetchSinglePool ==
    /\ pc = "fetch_pools"
    /\ LET cfg == pool_configs(args)[dex_i]
           dex == DexRegistry_get(dex_registry, cfg.dex_name).v
           pool_address == cfg.pool_list.v[addr_i]
           parsed == PubkeyFromStr(pool_address)
       IN \E rpc \in (IF parsed.ok THEN GetAccountOutcomes(parsed.v) ELSE {None}) :
            LET fetched == IF parsed.ok
                           THEN Dex_fetch_single_pool(dex, parsed.v, mint_pubkey, rpc)
                           ELSE Err(parsed.e)
                tr == Append(trace,
                          [ev |-> IF parsed.ok THEN "pool_read" ELSE "pool_bad_address",
                           dex |-> cfg.dex_name, addr |-> pool_address,
                           rpc |-> rpc, fetched |-> fetched])
                pools1 == FetchPoolsPush(pools, fetched)
            IN IF addr_i < Len(cfg.pool_list.v)
               THEN /\ addr_i' = addr_i + 1
                    /\ pools' = pools1
                    /\ trace' = tr
                    /\ UNCHANGED <<cache, lastOk, pc, result, mint_pubkey, attempt,
                                   last_error, pool_data, dex_i>>
               ELSE AfterFetchPools(args, dex_i, pool_data.v, Ok(pools1),
                        Append(tr, FetchPoolsReturned(cfg.dex_name, Ok(pools1))))
    /\ UNCHANGED <<config, now, args, calls>>
    /\ NoMaintenance

\* clear_expired_cache (it takes &mut self: no call is in progress).
ClearExpiredCache ==
    /\ pc = "idle"
    /\ cache' = CacheRetain(cache, now)
    /\ maint' = [op |-> "sweep"]
    /\ UNCHANGED <<config, now, pc, args, mint_pubkey, attempt, last_error,
                   pool_data, dex_i, addr_i, pools, result, trace, calls, lastOk,
                   registry, registered, account_data, offset_map, parse_result>>

\* get_cache_stats (it takes &self: no call is in progress).
GetCacheStats ==
    /\ pc = "idle"
    /\ LET total_entries == Cardinality(DOMAIN cache)
           expired_entries ==
               Cardinality({k \in DOMAIN cache : EntryExpired(cache[k], now)})
       IN maint' = [op |-> "stats", total |-> total_entries, expired |-> expired_entries]
    /\ UNCHANGED <<config, cache, now, pc, args, mint_pubkey, attempt, last_error,
                   pool_data, dex_i, addr_i, pools, result, trace, calls, lastOk,
                   registry, registered, account_data, offset_map, parse_result>>

\* Time passes.
Tick ==
    /\ \E d \in TickSteps : now + d <= MaxTicks * d /\ now' = now + d
    /\ UNCHANGED <<config, cache, pc, args, mint_pubkey, attempt, last_error,
                   pool_data, dex_i, addr_i, pools, result, trace, calls, lastOk>>
    /\ NoMaintenance

Init == InitWith(Configs)

Call ==
    /\ calls < MaxCalls
    /\ \E m \in MintStrs, w \in Wallets, pa \in PoolArgs : BeginCall(m, w, pa)

Next ==
    \/ Call
    \/ GetMintAccount
    \/ RetrySleep
    \/ FetchSinglePool

\* One call of initialize_pool_data in depth.
Spec == Init /\ [][Next]_vars

\* The inputs of the calls of SpecLive: mint A has an account, D has none
\* and C is owned by no token program; no list, lists of two addresses and
\* an empty list.
LiveMintStrs == {<<"A">>, <<"C">>, <<"D">>}
LivePoolArgs ==
    { [pump_pools |-> None, raydium_pools |-> None],
      [pump_pools |-> Some(<< <<"a">>, <<"c">> >>), raydium_pools |-> Some(<< <<"d">>, <<"g">> >>)],
      [pump_pools |-> Some(<<>>), raydium_pools |-> Some(<< <<"d">>, <<"k">> >>)] }

CallLive ==
    /\ calls < MaxCalls
    /\ \E m \in LiveMintStrs, pa \in LivePoolArgs : BeginCall(m, <<"W">>, pa)

NextLive ==
    \/ CallLive
    \/ GetMintAccount
    \/ RetrySleep
    \/ FetchSinglePool

\* Calls where every get_account returns and every sleep elapses: the task
\* is resumed at each of its two suspension points.
SpecLive ==
    /\ Init
    /\ [][NextLive]_vars
    /\ WF_vars(GetMintAccount)
    /\ WF_vars(RetrySleep)
    /\ WF_vars(FetchSinglePool)

InitCache == InitWith(CacheConfigs)

CallCache ==
    /\ calls < MaxCacheCalls
    /\ \E m \in CacheMintStrs, w \in Wallets, pa \in CachePoolArgs : BeginCall(m, w, pa)

NextCache ==
    \/ CallCache
    \/ GetMintAccount
    \/ RetrySleep
    \/ FetchSinglePool
    \/ ClearExpiredCache
    \/ GetCacheStats
    \/ Tick

\* Calls one after another on one TokenFetcher, as time passes.
SpecCache == InitCache /\ [][NextCache]_vars

(************** convert_and_add_pools on any fetch_pools result ************)
\* A descriptor as the Pump adapter builds it for pool pk.
PumpDescriptor(pk) == PumpDex_fetch_single_pool(pk, <<"A">>, Ok(Chain(pk))).v

\* PoolInfo values an implementation of Dex may return to line 134: the
\* Pump adapter's descriptors of pools a and b, the one of b without its
\* auxiliary accounts, the one of h with the creator-vault authority added,
\* and the Raydium adapter's descriptor of pool c.
ConvertInputs ==
    { PumpDescriptor(<<"a">>),
      [PumpDescriptor(<<"b">>) EXCEPT !.additional_accounts = EmptyMap],
      [PumpDescriptor(<<"h">>) EXCEPT !.additional_accounts =
          MapInsert(@, "coin_creator_vault_authority", <<"C">>)],
      RaydiumDex_fetch_single_pool(<<"c">>, <<"A">>, Ok(Chain(<<"c">>))).v }

RECURSIVE SeqsUpTo(_, _)
SeqsUpTo(S, n) ==
    IF n = 0 THEN {<<>>}
    ELSE SeqsUpTo(S, n - 1)
             \cup {Append(q, x) : q \in {r \in SeqsUpTo(S, n - 1) : Len(r) = n - 1}, x \in S}

\* The call is at line 134, fetch_pools about to return pools for the
\* exchange dex_i; the other exchange has no address to read.
InitConvert ==
    /\ config \in CacheConfigs
    /\ cache = EmptyMap
    /\ now = 0
    /\ pc = "fetch_pools_returns"
    /\ dex_i \in 1..2
    /\ args = [mint |-> <<"A">>, wallet_account |-> <<"W">>,
               pump_pools |-> IF dex_i = 1 THEN Some(<< <<"a">> >>) ELSE None,
               raydium_pools |-> IF dex_i = 2 THEN Some(<< <<"c">> >>) ELSE Some(<<>>)]
    /\ mint_pubkey = <<"A">>
    /\ attempt = 0
    /\ last_error = None
    /\ pool_data = Some(MintPoolData_new(<<"A">>, <<"W">>, spl_token_ID).v)
    /\ addr_i = 1
    /\ pools \in SeqsUpTo(ConvertInputs, MaxConvertPools)
    /\ result = NoResult
    /\ trace = <<>>
    /\ calls = 1
    /\ lastOk = [p \in MintStrs \X Wallets |-> None]
    /\ maint = NoMaint
    /\ registry = DexRegistry_new
    /\ registered = <<>>
    /\ NoParseInput

\* Lines 134-165 on the fetch_pools result in pools.
ConvertPools ==
    /\ pc = "fetch_pools_returns"
    /\ AfterFetchPools(args, dex_i, pool_data.v, Ok(pools),
                       <<FetchPoolsReturned(pool_configs(args)[dex_i].dex_name,
                                            Ok(pools))>>)
    /\ UNCHANGED <<config, now, args, calls>>
    /\ NoMaintenance

NextConvert == ConvertPools

\* convert_and_add_pools and what initialize_pool_data does with its result,
\* on every fetch_pools result.
SpecConvert == InitConvert /\ [][NextConvert]_vars

(********************** DexRegistry on any register sequence ***************)
\* Adapters a caller may register: the two of this repository, two more
\* under the names "pump" and "raydium", and one under a third name.
DexInputs ==
    { PumpDex, RaydiumDex,
      [name |-> "pump", program_id |-> <<"D">>],
      [name |-> "raydium", program_id |-> <<"D">>],
      [name |-> "orca", program_id |-> <<"C">>] }

\* Names a caller may look up; "meteora" is never registered.
DexNames == {"pump", "raydium", "orca", "meteora"}

InitRegistry == InitWith({[max_retries |-> 1, retry_delay_ms |-> 500,
                           enable_caching |-> TRUE, cache_ttl_seconds |-> 1]})

\* registry.register(dex)
Register ==
    /\ Len(registered) < MaxRegistered
    /\ \E dex \in DexInputs :
         /\ registry' = DexRegistry_register(registry, dex)
         /\ registered' = Append(registered, dex)
    /\ UNCHANGED <<config, cache, now, pc, args, mint_pubkey, attempt, last_error,
                   pool_data, dex_i, addr_i, pools, result, trace, calls, lastOk,
                   maint, account_data, offset_map, parse_result>>

NextRegistry == Register

\* A DexRegistry under any sequence of register calls.
SpecRegistry == InitRegistry /\ [][NextRegistry]_vars

(****************** parse_pool_account (src/macros.rs) *********************)
\* In this section a Pubkey is its 32 bytes (Pubkey::new_from_array wraps
\* the array as it is); a buffer is a sequence of bytes, byte i of the code
\* (from 0) at position i + 1.
PubkeyBytes == 32

\* Pubkey::default() as bytes.
PubkeyZeroBytes == [i \in 1..PubkeyBytes |-> 0]

\* <$pool_struct>::default()
PoolStructDefault ==
    [token_mint |-> PubkeyZeroBytes, base_mint |-> PubkeyZeroBytes,
     token_vault |-> PubkeyZeroBytes, base_vault |-> PubkeyZeroBytes]

\* What evaluating an expression ends in: a value, or a panic of the thread.
Evaluated(x) == [panicked |-> FALSE, v |-> x]
Panicked(msg) == [panicked |-> TRUE, msg |-> msg]

\* data[lo..hi]: the bytes lo..hi-1; the index operation panics when the
\* range is not inside the buffer.
SliceIndex(data, lo, hi) ==
    IF lo > hi THEN Panicked("slice index starts past its end")
    ELSE IF hi > Len(data) THEN Panicked("range end index out of range for slice")
    ELSE Evaluated([i \in 1..(hi - lo) |-> data[lo + i]])

\* Pubkey::new_from_array($account_data[*offset..*offset + 32].try_into().unwrap()):
\* try_into() of a 32-byte slice into [u8; 32] is Ok.  (The offsets of
\* OffsetInputs are far below usize::MAX: *offset + 32 does not wrap.)
ReadPubkeyAt(data, offset) == SliceIndex(data, offset, offset + PubkeyBytes)

\* The field names the match of the macro has an arm for.
ParsedFields == {"token_mint", "base_mint", "token_vault", "base_vault"}

\* The loop of the macro over the entries of the offset map, in the order
\* iter() yields them; entries of other names fall to the `_ => {}` arm.
RECURSIVE ParseFields(_, _, _)
ParseFields(info, data, entries) ==
    IF entries = <<>> THEN Evaluated(info)
    ELSE LET e == Head(entries) IN
         IF e.field_name \in ParsedFields
         THEN LET key == ReadPubkeyAt(data, e.offset) IN
              IF key.panicked THEN key
              ELSE ParseFields([info EXCEPT ![e.field_name] = key.v], data, Tail(entries))
         ELSE ParseFields(info, data, Tail(entries))

\* parse_pool_account!(account_data, pool_struct, offset_map)
parse_pool_account(data, entries) == ParseFields(PoolStructDefault, data, entries)

\* A buffer of n bytes (byte i holds i + 1).
BufferOfLen(n) == [i \in 1..n |-> i]

\* The buffers passed as $account_data.
BufferInputs == {BufferOfLen(n) : n \in 0..MaxBufLen}

\* The entries an offset map may hold: offsets 0 and 8 fit a buffer of 40
\* bytes (8 + 32 = 40 exactly), 9 does not; "fee_wallet" has no arm.
OffsetInputs ==
    [field_name : {"token_mint", "base_vault", "fee_wallet"}, offset : {0, 8, 9}]

InitParse ==
    /\ InitFetcher({[max_retries |-> 1, retry_delay_ms |-> 500,
                     enable_caching |-> TRUE, cache_ttl_seconds |-> 1]})
    /\ account_data \in BufferInputs
    /\ offset_map \in SeqsUpTo(OffsetInputs, MaxOffsetEntries)
    /\ parse_result = NotParsed

\* One expansion of parse_pool_account on (account_data, offset_map).
ParsePoolAccount ==
    /\ parse_result = NotParsed
    /\ parse_result' = parse_pool_account(account_data, offset_map)
    /\ UNCHANGED <<config, cache, now, pc, args, mint_pubkey, attempt, last_error,
                   pool_data, dex_i, addr_i, pools, result, trace, calls, lastOk,
                   maint, registry, registered, account_data, offset_map>>

NextParse == ParsePoolAccount

\* parse_pool_account on any buffer and offset map.
SpecParse == InitParse /\ [][NextParse]_vars

(***************************** claims **************************************)
\* The events of a trace that are account reads.
IsRead(e) == e.ev \in {"read", "pool_read", "fetch_pools"}
NoReads(tr) == \A i \in 1..Len(tr) : ~IsRead(tr[i])

\* The step is the start of a call for (m, w).
CallStarts(m, w) ==
    /\ calls' = calls + 1
    /\ args'.mint = m
    /\ args'.wallet_account = w

\* C1: with caching enabled, once a call for (mint, wallet) has succeeded by
\* fetching, every later call for the same (mint, wallet) that starts less
\* than cache_ttl_seconds after that success returns at once, with no
\* account read, the aggregate that call returned.
C1_HitWithinTtl ==
    [][\A m \in MintStrs, w \in Wallets :
         LET prev == lastOk[<<m, w>>] IN
         (/\ CallStarts(m, w)
          /\ config.enable_caching
          /\ prev.some
          /\ now - prev.v.timestamp < config.cache_ttl_seconds * 1000)
         => (/\ pc' = "idle"
             /\ result' = Ok(prev.v.data)
             /\ NoReads(trace'))]_vars

\* A second call was served from the cache with a non-empty aggregate, some
\* time after the first.
C1_Witness ==
    /\ pc = "idle"
    /\ calls >= 2
    /\ config.enable_caching
    /\ trace = <<[ev |-> "cache_hit"]>>
    /\ lastOk[<<args.mint, args.wallet_account>>].some
    /\ result = Ok(lastOk[<<args.mint, args.wallet_account>>].v.data)
    /\ now > lastOk[<<args.mint, args.wallet_account>>].v.timestamp
    /\ result.v.raydium_pools # <<>>

\* The step starts a call whose key is k.
CallStartsOnKey(k) ==
    /\ calls' = calls + 1
    /\ CacheKey(args'.mint, args'.wallet_account) = k

\* The step serves the call from the cache entry e.
ServedFrom(e) ==
    /\ pc' = "idle"
    /\ result' = Ok(e.data)
    /\ trace' = <<[ev |-> "cache_hit"]>>

\* C2: a cache entry stamped at T, with ttl S seconds, is served to a call
\* starting at t when t - T < S and is treated as absent when t - T >= S
\* (t = T + S included); every entry is stamped with the time of the cache
\* write that ends the fetching call.
C2_TtlBoundary ==
    [][/\ \A k \in DOMAIN cache :
            (config.enable_caching /\ CallStartsOnKey(k))
            => IF now - cache[k].timestamp < config.cache_ttl_seconds * 1000
               THEN ServedFrom(cache[k])
               ELSE trace' # <<[ev |-> "cache_hit"]>>
       /\ \A k \in DOMAIN cache' :
            (k \notin DOMAIN cache \/ cache'[k] # cache[k])
            => (/\ cache'[k].timestamp = now'
                /\ pc # "idle" /\ pc' = "idle"
                /\ result' = Ok(cache'[k].data)
                /\ trace'[Len(trace')] = [ev |-> "cache_write"])]_vars

\* A call has just started at exactly t = T + S on a present entry and was
\* not served: it is about to read the mint account.
C2_Witness ==
    /\ pc = "fetch_account"
    /\ trace = <<>>
    /\ config.enable_caching
    /\ CacheKey(args.mint, args.wallet_account) \in DOMAIN cache
    /\ now - cache[CacheKey(args.mint, args.wallet_account)].timestamp
           = config.cache_ttl_seconds * 1000

\* The positions of the mint account reads and of the delays in a trace.
MintReadsAt(tr) == {i \in 1..Len(tr) : tr[i].ev = "read"}
DelaysAt(tr) == {i \in 1..Len(tr) : tr[i].ev = "delay"}

\* Every mint account read so far has failed (and there is one).
AllMintReadsFailed ==
    /\ MintReadsAt(trace) # {}
    /\ \A i \in MintReadsAt(trace) : ~trace[i].rpc.ok

\* The call has returned the failure of fetch_account_with_retry.
ReturnedFetchFailed ==
    /\ pc = "idle"
    /\ calls > 0
    /\ ~result.ok
    /\ result.e.kind = "FetchAccountFailed"

\* C3: when every read fails, fetch_account_with_retry makes exactly
\* max_retries reads and max_retries - 1 delays, each delay retry_delay_ms
\* long and each between two reads, and then fails with an error carrying
\* the address and the error of the last read.
C3_RetryExhaustion ==
    AllMintReadsFailed =>
        LET n == Cardinality(MintReadsAt(trace)) IN
        /\ n <= config.max_retries
        /\ \A i \in 1..Len(trace) :
             /\ (i % 2 = 1) => trace[i].ev = "read"
             /\ (i % 2 = 0) => (/\ trace[i] = [ev |-> "delay", ms |-> config.retry_delay_ms]
                                /\ i < Len(trace) \/ pc = "fetch_account")
        /\ (pc = "idle") <=> (n = config.max_retries /\ Len(trace) = 2 * n - 1)
        /\ (pc = "idle") =>
             /\ Cardinality(DelaysAt(trace)) = config.max_retries - 1
             /\ result = Err([kind |-> "FetchAccountFailed",
                              pubkey |-> args.mint,
                              attempts |-> config.max_retries,
                              last_error |-> Some(trace[Len(trace)].rpc.e)])

\* A call with max_retries >= 2 has failed after reads that failed with
\* different errors.
C3_Witness ==
    /\ ReturnedFetchFailed
    /\ config.max_retries >= 2
    /\ Cardinality(MintReadsAt(trace)) = config.max_retries
    /\ trace[1].rpc.e # trace[Len(trace)].rpc.e

\* C4: when the first successful read is read number k, there are exactly k
\* reads and k - 1 delays, nothing is read from the mint and no delay is
\* taken after it, and the account of that read is the one the call goes on
\* with.
C4_SuccessStopsRetry ==
    \A i \in MintReadsAt(trace) :
        trace[i].rpc.ok =>
            LET k == (i + 1) \div 2 IN
            /\ i = 2 * k - 1
            /\ k <= config.max_retries
            /\ Cardinality(MintReadsAt(trace)) = k
            /\ Cardinality(DelaysAt(trace)) = k - 1
            /\ \A j \in 1..(i - 1) :
                 IF j % 2 = 1
                 THEN trace[j].ev = "read" /\ ~trace[j].rpc.ok
                 ELSE trace[j] = [ev |-> "delay", ms |-> config.retry_delay_ms]
            /\ \A j \in (i + 1)..Len(trace) : trace[j].ev \notin {"read", "delay"}
            /\ pc \notin {"fetch_account", "sleep"}
            /\ (pc = "fetch_pools") => pool_data.v.token_program = trace[i].rpc.v.owner
            /\ (pc = "idle" /\ result.ok) => result.v.token_program = trace[i].rpc.v.owner

\* A call succeeded on its second read (k = 2) and went on to read pools.
C4_Witness ==
    /\ pc = "idle"
    /\ calls > 0
    /\ result.ok
    /\ Len(trace) > 3
    /\ trace[1].ev = "read" /\ ~trace[1].rpc.ok
    /\ trace[2].ev = "delay"
    /\ trace[3].ev = "read" /\ trace[3].rpc.ok
    /\ trace[4].ev = "fetch_pools"

\* The call was answered by the cache check.
ServedFromCache == trace = <<[ev |-> "cache_hit"]>>

\* The mint account read that succeeded, if any (there is at most one).
MintAccountRead == {trace[i].rpc.v : i \in {j \in MintReadsAt(trace) : trace[j].rpc.ok}}

\* The token program the call in progress, or the call that returned, resolved.
ResolvedTokenProgram ==
    IF pc = "fetch_pools" THEN Some(pool_data.v.token_program)
    ELSE IF pc = "idle" /\ calls > 0 /\ result.ok /\ ~ServedFromCache
    THEN Some(result.v.token_program)
    ELSE None

\* C5: a mint account owned by the standard token program resolves to the
\* standard token program, one owned by the Token-2022 program to the
\* Token-2022 program, and for any other owner the call fails with an
\* unknown-token-program error naming the mint.
C5_ProgramClassification ==
    \A acc \in MintAccountRead :
        IF acc.owner = <<"T">> THEN ResolvedTokenProgram = Some(<<"T">>)
        ELSE IF acc.owner = <<"Z">> THEN ResolvedTokenProgram = Some(<<"Z">>)
        ELSE /\ pc = "idle"
             /\ result = Err([kind |-> "UnknownTokenProgram", mint |-> args.mint])

\* A call on a Token-2022 mint has returned its aggregate.
C5_Witness ==
    /\ pc = "idle"
    /\ calls > 0
    /\ result.ok
    /\ args.mint = <<"B">>
    /\ result.v.token_program = TOKEN_2022_PROGRAM_ID
    /\ \E acc \in MintAccountRead : acc.owner = TOKEN_2022_PROGRAM_ID

\* The positions of the calls of fetch_pools and of its reads in a trace.
PoolEventsAt(tr) ==
    {i \in 1..Len(tr) : tr[i].ev \in {"fetch_pools", "pool_read", "pool_bad_address"}}

\* Position i of the trace comes after the mint address parsed, the mint
\* account was read and its owner is a known token program.
GateOpenBefore(i) ==
    /\ PubkeyFromStr(args.mint).ok
    /\ \E j \in MintReadsAt(trace) :
         /\ j < i
         /\ trace[j].rpc.ok
         /\ trace[j].rpc.v.owner \in {spl_token_ID, TOKEN_2022_PROGRAM_ID}

SinglePoolEvents(tr, name) ==
    SelectSeq(tr, LAMBDA e : e.ev \in {"pool_read", "pool_bad_address"} /\ e.dex = name)

\* The descriptors exchange name produced, in order.
Fetched(tr, name) ==
    LET oks == SelectSeq(SinglePoolEvents(tr, name), LAMBDA e : e.fetched.ok)
    IN [i \in 1..Len(oks) |-> oks[i].fetched.v]

\* Every address of exchange name failed, and there was one.
FailedOnEveryAddress(name) ==
    /\ SinglePoolEvents(trace, name) # <<>>
    /\ Fetched(trace, name) = <<>>

\* The call has returned after getting past the mint gate.
ReturnedPastGate ==
    /\ pc = "idle"
    /\ calls > 0
    /\ ~ServedFromCache
    /\ GateOpenBefore(Len(trace) + 1)

\* The Raydium records the call yields from the Raydium reads alone.
RaydiumAlone(tr) ==
    [i \in 1..Len(Fetched(tr, "raydium")) |->
        LET d == Fetched(tr, "raydium")[i] IN
        [pool |-> d.pool_address, token_vault |-> d.token_vault,
         sol_vault |-> d.base_vault, token_mint |-> d.token_mint,
         base_mint |-> d.base_mint]]

\* The pools of the Pump records the call yields from the Pump reads alone.
PumpAlonePools(tr) ==
    [i \in 1..Len(Fetched(tr, "pump")) |-> Fetched(tr, "pump")[i].pool_address]

\* C7: with both exchanges configured, when one adapter fails on every pool
\* address the call still succeeds, with no pool of that exchange and with
\* exactly the pools of the other exchange that its own reads yield.
C7_PartialFailureIsolation ==
    (ReturnedPastGate /\ args.pump_pools.some /\ args.raydium_pools.some)
    => /\ FailedOnEveryAddress("pump")
          => (/\ result.ok
              /\ result.v.pump_pools = <<>>
              /\ result.v.raydium_pools = RaydiumAlone(trace))
       /\ FailedOnEveryAddress("raydium")
          => (/\ result.ok
              /\ result.v.raydium_pools = <<>>
              /\ [i \in 1..Len(result.v.pump_pools) |-> result.v.pump_pools[i].pool]
                     = PumpAlonePools(trace))

\* The Pump adapter failed on both of its addresses and the aggregate holds
\* a Raydium pool.
C7_Witness ==
    /\ ReturnedPastGate
    /\ result.ok
    /\ Len(SinglePoolEvents(trace, "pump")) = 2
    /\ FailedOnEveryAddress("pump")
    /\ result.v.pump_pools = <<>>
    /\ result.v.raydium_pools # <<>>

\* The program an adapter declares.
ProgramIdOf(name) == IF name = "pump" THEN <<"P">> ELSE <<"R">>

\* The account at pk exists and is not owned by the program of exchange name.
ForeignTo(name, pk) == pk \in ChainAddrs /\ Chain(pk).owner # ProgramIdOf(name)

\* The pool addresses of the records of an aggregate.
PoolsOf(records) == {records[i].pool : i \in 1..Len(records)}

AggregateClean(pd) ==
    /\ \A pk \in PoolsOf(pd.pump_pools) : ~ForeignTo("pump", pk)
    /\ \A pk \in PoolsOf(pd.raydium_pools) : ~ForeignTo("raydium", pk)

\* C9: a pool address whose account is not owned by the adapter's program
\* never yields a descriptor, at any position of the list: it is in no
\* fetch_pools result and in no aggregate, built, returned or cached.
C9_OwnershipGuard ==
    /\ \A i \in 1..Len(trace) :
         (trace[i].ev = "pool_read" /\ ForeignTo(trace[i].dex, trace[i].addr))
         => ~trace[i].fetched.ok
    /\ (pc = "fetch_pools") =>
         /\ \A i \in 1..Len(pools) :
              ~ForeignTo(pool_configs(args)[dex_i].dex_name, pools[i].pool_address)
         /\ AggregateClean(pool_data.v)
    /\ (pc = "idle" /\ calls > 0 /\ result.ok) => AggregateClean(result.v)
    /\ \A k \in DOMAIN cache : AggregateClean(cache[k].data)

\* Both adapters rejected a foreign-owned account that holds a well-formed
\* layout or came first in the list, and the call returned the other pools.
C9_Witness ==
    /\ pc = "idle"
    /\ calls > 0
    /\ result.ok
    /\ \E i \in 1..Len(trace) :
         /\ trace[i].ev = "pool_read"
         /\ trace[i].addr = <<"f">>
         /\ ~trace[i].fetched.ok
         /\ trace[i].fetched.e.kind = "NotOwnedByPump"
    /\ \E i \in 1..Len(trace) :
         /\ trace[i].ev = "pool_read"
         /\ trace[i].addr = <<"a">>
         /\ ~trace[i].fetched.ok
         /\ trace[i].fetched.e.kind = "NotOwnedByRaydium"
    /\ PoolsOf(result.v.pump_pools) = {<<"b">>}
    /\ PoolsOf(result.v.raydium_pools) = {<<"c">>}

\* The two mint fields of a pool account, in on-chain order.
MintFields(pk) ==
    LET data == Chain(pk).data IN
    IF data.layout = "pump" THEN <<data.base_mint, data.quote_mint>>
    ELSE <<data.coin_mint, data.pc_mint>>

\* C10: for a pool one of whose two mint fields is the queried mint, in
\* either order, the descriptor fetch_single_pool produces has token_mint
\* equal to the queried mint and base_mint equal to the other mint.
C10_Orientation ==
    \A i \in 1..Len(trace) :
        (trace[i].ev = "pool_read" /\ trace[i].fetched.ok)
        => LET f == MintFields(trace[i].addr)
               d == trace[i].fetched.v
           IN /\ (f[1] = args.mint) => (d.token_mint = args.mint /\ d.base_mint = f[2])
              /\ (f[2] = args.mint) => (d.token_mint = args.mint /\ d.base_mint = f[1])

\* Descriptors were produced for a Pump pool whose second mint field is the
\* queried mint and for a Raydium pool whose first mint field is.
C10_Witness ==
    /\ \E i \in 1..Len(trace) :
         /\ trace[i].ev = "pool_read" /\ trace[i].fetched.ok
         /\ trace[i].dex = "pump"
         /\ MintFields(trace[i].addr)[2] = args.mint
         /\ MintFields(trace[i].addr)[1] # args.mint
         /\ trace[i].fetched.v.token_mint = args.mint
    /\ \E i \in 1..Len(trace) :
         /\ trace[i].ev = "pool_read" /\ trace[i].fetched.ok
         /\ trace[i].dex = "raydium"
         /\ MintFields(trace[i].addr)[1] = args.mint
         /\ MintFields(trace[i].addr)[2] # args.mint
         /\ trace[i].fetched.v.token_mint = args.mint

\* The descriptors of a fetch_pools result that carry the auxiliary key the
\* Pump record requires.
Convertible(ps) ==
    SelectSeq(ps, LAMBDA d : "coin_creator_vault_ata" \in DOMAIN d.additional_accounts)

RecordsOf(pd) ==
    {pd.pump_pools[i] : i \in 1..Len(pd.pump_pools)}
        \cup {pd.raydium_pools[i] : i \in 1..Len(pd.raydium_pools)}

\* C11: every pool record of every aggregate that initialize_pool_data
\* returns or caches for mint M has token_mint equal to M, whatever pool
\* accounts the adapters accepted (pools holding M in neither mint field
\* included).
C11_TokenMintIsQueried ==
    /\ (pc = "idle" /\ calls > 0 /\ result.ok /\ ~ServedFromCache)
       => \A r \in RecordsOf(result.v) : r.token_mint = args.mint
    /\ \A k \in DOMAIN cache :
         \A r \in RecordsOf(cache[k].data) : r.token_mint = cache[k].data.mint

\* The vault of the side of pool account pk whose mint is m.
VaultOfSide(pk, m) ==
    LET data == Chain(pk).data IN
    IF data.layout = "pump"
    THEN IF data.base_mint = m THEN data.pool_base_token_account
         ELSE data.pool_quote_token_account
    ELSE IF data.coin_mint = m THEN data.coin_vault ELSE data.pc_vault

\* C12: in every descriptor an adapter produces, token_vault is the vault of
\* the pool side whose mint is the descriptor's token_mint and base_vault
\* the vault of the side whose mint is its base_mint, whichever side holds
\* native SOL and whichever holds the queried mint.
C12_VaultPairing ==
    \A i \in 1..Len(trace) :
        (trace[i].ev = "pool_read" /\ trace[i].fetched.ok)
        => LET d == trace[i].fetched.v IN
           /\ d.token_vault = VaultOfSide(trace[i].addr, d.token_mint)
           /\ d.base_vault = VaultOfSide(trace[i].addr, d.base_mint)

\* The positions in a trace at which fetch_pools of exchange name returned.
ReturnsAt(tr, name) ==
    {j \in 1..Len(tr) : tr[j].ev = "fetch_pools_returned" /\ tr[j].dex = name}

\* The fetch of one address succeeded on its own: the address is valid, the
\* account was read, its owner is the adapter's program and its layout
\* decodes.
SingleFetchSucceeds(e) ==
    /\ e.ev = "pool_read"
    /\ e.rpc.ok
    /\ e.rpc.v.owner = ProgramIdOf(e.dex)
    /\ e.rpc.v.data.layout = e.dex

\* C13: fetch_pools of either adapter never fails as a batch: for every
\* address list it returns success, with one descriptor for each address
\* whose own fetch succeeded, in order, and none for any other address.
C13_BatchNeverFails ==
    \A i \in 1..Len(trace) :
        trace[i].ev = "fetch_pools" =>
            LET name == trace[i].dex
                evs == SinglePoolEvents(trace, name)
                good == SelectSeq(evs, SingleFetchSucceeds)
            IN /\ Len(evs) <= trace[i].n
               /\ \A j \in 1..Len(evs) : evs[j].fetched.ok <=> SingleFetchSucceeds(evs[j])
               /\ Cardinality(ReturnsAt(trace, name)) <= 1
               /\ (Len(evs) = trace[i].n) <=> (ReturnsAt(trace, name) # {})
               /\ (pc = "idle") => (ReturnsAt(trace, name) # {})
               /\ \A j \in ReturnsAt(trace, name) :
                    /\ j > i
                    /\ trace[j].res.ok
                    /\ Len(trace[j].res.v) = Len(good)
                    /\ \A k \in 1..Len(good) :
                         /\ trace[j].res.v[k] = good[k].fetched.v
                         /\ trace[j].res.v[k].pool_address = good[k].addr

\* fetch_pools of the Pump adapter, given a valid pool and then a pool of
\* the Raydium program, returned only the valid pool.
C13_Witness ==
    /\ pc = "idle"
    /\ calls > 0
    /\ result.ok
    /\ args.pump_pools = Some(<< <<"a">>, <<"c">> >>)
    /\ \E j \in ReturnsAt(trace, "pump") :
         /\ trace[j].res.ok
         /\ Len(trace[j].res.v) = 1
         /\ trace[j].res.v[1].pool_address = <<"a">>
    /\ \E i \in 1..Len(trace) :
         /\ trace[i].ev = "pool_read"
         /\ trace[i].addr = <<"c">>
         /\ trace[i].dex = "pump"
         /\ trace[i].rpc.ok
         /\ ~trace[i].fetched.ok

\* C14: with enable_caching false the cache is bypassed: it is never
\* written (it stays empty, as constructed) and never read (no call is
\* answered from it), and every call goes on to the mint account fetch: no
\* call returns without a mint read once its mint has parsed, even when the
\* same call succeeded just before.
C14_CachingDisabledBypass ==
    [][~config.enable_caching =>
          /\ cache = EmptyMap
          /\ cache' = EmptyMap
          /\ (calls' = calls + 1) =>
                /\ trace' # <<[ev |-> "cache_hit"]>>
                /\ (PubkeyFromStr(args'.mint).ok /\ config.max_retries > 0)
                   => (pc' = "fetch_account" /\ attempt' = 0 /\ trace' = <<>>)
          /\ (pc' = "idle" /\ calls' > 0
                /\ PubkeyFromStr(args'.mint).ok /\ config.max_retries > 0)
             => MintReadsAt(trace') # {}
          /\ (pc' = "idle" /\ calls' > 0 /\ result'.ok)
             => \E i \in MintReadsAt(trace') : trace'[i].rpc.ok]_vars

\* With caching disabled, a call for a pair that succeeded at this very
\* instant is about to read the mint account again.
C14_Witness ==
    /\ ~config.enable_caching
    /\ calls >= 2
    /\ pc = "fetch_account"
    /\ trace = <<>>
    /\ cache = EmptyMap
    /\ lastOk[<<args.mint, args.wallet_account>>].some
    /\ lastOk[<<args.mint, args.wallet_account>>].v.timestamp = now
    /\ lastOk[<<args.mint, args.wallet_account>>].v.data.pump_pools # <<>>

\* The age of a cache entry at time t, in milliseconds.
AgeMs(entry, t) == t - entry.timestamp

\* The keys of the entries that are at least cache_ttl_seconds old.
ExpiredKeys == {k \in DOMAIN cache : AgeMs(cache[k], now) >= config.cache_ttl_seconds * 1000}

\* C15: clear_expired_cache removes every entry whose age is at least
\* cache_ttl_seconds and no other: after it the cache holds exactly the
\* entries that were younger, each with its data and timestamp unchanged.
C15_SweepRemovesExactlyExpired ==
    [][maint'.op = "sweep" =>
          /\ DOMAIN cache' = DOMAIN cache \ ExpiredKeys
          /\ \A k \in DOMAIN cache' : cache'[k] = cache[k]]_vars

\* A sweep has removed the entry of one pair, which was written earlier,
\* and kept the younger entry of another.
C15_Witness ==
    /\ maint.op = "sweep"
    /\ config.enable_caching
    /\ \E p \in MintStrs \X Wallets :
         /\ lastOk[p].some
         /\ CacheKey(p[1], p[2]) \notin DOMAIN cache
    /\ \E k \in DOMAIN cache : AgeMs(cache[k], now) > 0

\* C16: get_cache_stats returns (total, expired): total is the number of
\* entries present and expired the number of those at least
\* cache_ttl_seconds old, so expired <= total; the entries counted as
\* expired are the ones the cache check treats as absent and the ones
\* clear_expired_cache would remove; right after a sweep expired is 0.
C16_CacheStats ==
    [][/\ maint'.op = "stats" =>
            /\ cache' = cache
            /\ maint'.total = Cardinality(DOMAIN cache)
            /\ maint'.expired = Cardinality(ExpiredKeys)
            /\ maint'.expired <= maint'.total
            /\ maint'.expired
                   = Cardinality({k \in DOMAIN cache : ~EntryLive(cache[k], now)})
            /\ maint'.expired
                   = Cardinality(DOMAIN cache \ DOMAIN CacheRetain(cache, now))
       /\ (maint.op = "sweep" /\ maint'.op = "stats") => maint'.expired = 0]_vars

\* get_cache_stats has returned (2, 1): one entry is exactly
\* cache_ttl_seconds old, the other younger.
C16_Witness ==
    /\ maint = [op |-> "stats", total |-> 2, expired |-> 1]
    /\ \E k \in DOMAIN cache : AgeMs(cache[k], now) = config.cache_ttl_seconds * 1000

\* The positions at which an adapter was registered under name.
RegisteredAs(name) == {i \in 1..Len(registered) : registered[i].name = name}

\* The adapter most recently registered under name (there is one).
LastRegistered(name) ==
    registered[CHOOSE i \in RegisteredAs(name) : \A j \in RegisteredAs(name) : j <= i]

\* C17: after any sequence of register calls, get(name) returns the adapter
\* most recently registered under that name, and none for a name never
\* registered; all_dexes() holds exactly one adapter per registered name.
C17_RegistryLastWins ==
    /\ \A name \in DexNames :
         DexRegistry_get(registry, name)
             = IF RegisteredAs(name) = {} THEN None ELSE Some(LastRegistered(name))
    /\ LET all == DexRegistry_all_dexes(registry) IN
       /\ \A d \in DOMAIN all : all[d] = 1 /\ RegisteredAs(d.name) # {}
       /\ \A name \in DexNames :
            RegisteredAs(name) # {}
            => {d \in DOMAIN all : d.name = name} = {LastRegistered(name)}

\* Two adapters were registered under "pump", another adapter in between,
\* and get("pump") returns the second of the two.
C17_Witness ==
    /\ Len(registered) = 3
    /\ registered[1].name = "pump"
    /\ registered[2].name = "raydium"
    /\ registered[3].name = "pump"
    /\ registered[1] # registered[3]
    /\ DexRegistry_get(registry, "pump") = Some(registered[3])
    /\ DexRegistry_get(registry, "meteora") = None
    /\ DOMAIN DexRegistry_all_dexes(registry) = {registered[2], registered[3]}

\* C18: initialize_pool_data never removes a cache entry.  In every step
\* other than a sweep each entry stays present, and it changes only when
\* the call for its own key returns success and overwrites it; a call that
\* finds a stale entry leaves the cache as it is, and no step of a call
\* touches the entry of another key.
C18_NoEvictionByCalls ==
    [][maint'.op # "sweep" =>
          /\ DOMAIN cache \subseteq DOMAIN cache'
          /\ \A k \in DOMAIN cache :
               cache'[k] # cache[k]
               => (/\ k = CacheKey(args.mint, args.wallet_account)
                   /\ pc # "idle" /\ pc' = "idle"
                   /\ result'.ok)
          /\ (calls' = calls + 1) => cache' = cache
          /\ \A k \in DOMAIN cache' \ DOMAIN cache :
               k = CacheKey(args.mint, args.wallet_account)]_vars

\* A call has just written its own entry while the entry of another key was
\* already stale; the stale entry is still there and get_cache_stats counts
\* it: (2, 1).
C18_Witness ==
    /\ maint = [op |-> "stats", total |-> 2, expired |-> 1]
    /\ result.ok
    /\ trace # <<>>
    /\ trace[Len(trace)] = [ev |-> "cache_write"]
    /\ cache[CacheKey(args.mint, args.wallet_account)].timestamp = now
    /\ \E k \in ExpiredKeys : k # CacheKey(args.mint, args.wallet_account)

\* The positions of the cache writes in a trace.
CacheWritesAt(tr) == {i \in 1..Len(tr) : tr[i].ev = "cache_write"}

\* C19: a call writes the cache at most once, only as it returns success,
\* only after fetch_pools has returned for every exchange it is called for,
\* and with exactly the aggregate it returns; a call that returns an error
\* never writes, so it leaves the cache as it was (no step of a call other
\* than the returning step of a successful call changes the cache).
C19_CacheWriteOnceOnSuccess ==
    [][/\ (maint'.op # "sweep" /\ cache' # cache) =>
            /\ pc # "idle" /\ pc' = "idle"
            /\ result'.ok
            /\ cache' = MapInsert(cache, CacheKey(args.mint, args.wallet_account),
                                  [data |-> result'.v, timestamp |-> now'])
            /\ trace' # <<>> /\ CacheWritesAt(trace') = {Len(trace')}
            /\ \A i \in 1..Len(pool_configs(args)) :
                 IsFetched(args, i)
                 => \E j \in ReturnsAt(trace', pool_configs(args)[i].dex_name) :
                        j < Len(trace')
       /\ Cardinality(CacheWritesAt(trace')) <= 1
       /\ CacheWritesAt(trace') # {}
          => (/\ pc' = "idle" /\ result'.ok
              /\ config.enable_caching
              /\ (pc # "idle") =>
                    cache'[CacheKey(args.mint, args.wallet_account)]
                        = [data |-> result'.v, timestamp |-> now'])
       /\ (pc' = "idle" /\ calls' > 0 /\ ~result'.ok)
          => (CacheWritesAt(trace') = {} /\ (pc # "idle" => cache' = cache))]_vars

\* A call for a pair whose entry is stale has failed on the mint account
\* read; the stale entry is as it was.
C19_Witness ==
    /\ pc = "idle"
    /\ calls > 0
    /\ maint = NoMaint
    /\ ~result.ok
    /\ result.e.kind = "FetchAccountFailed"
    /\ CacheKey(args.mint, args.wallet_account) \in DOMAIN cache
    /\ cache[CacheKey(args.mint, args.wallet_account)].timestamp < now
    /\ cache[CacheKey(args.mint, args.wallet_account)].data.pump_pools # <<>>
    /\ lastOk[<<args.mint, args.wallet_account>>]
           = Some(cache[CacheKey(args.mint, args.wallet_account)])

\* The positions of the events of exchange name in a trace.
ExchangeEventsAt(tr, name) ==
    {i \in 1..Len(tr) :
        /\ tr[i].ev \in {"fetch_pools", "pool_read", "pool_bad_address",
                          "fetch_pools_returned"}
        /\ tr[i].dex = name}

\* The address list the caller gave for exchange name.
CallerList(name) == IF name = "pump" THEN args.pump_pools.v ELSE args.raydium_pools.v

\* The pool addresses of a sequence of records.
PoolSeq(records) == [i \in 1..Len(records) |-> records[i].pool]

\* The addresses of the caller's list for exchange name whose fetch
\* succeeded, in the caller's order.
AcceptedInOrder(tr, name) ==
    LET oks == SelectSeq(SinglePoolEvents(tr, name), LAMBDA e : e.fetched.ok)
    IN [i \in 1..Len(oks) |-> oks[i].addr]

\* C20: within one call the exchanges are processed one after another in
\* the order pump, raydium; the addresses of an exchange are read one at a
\* time in the caller's order, between the call of fetch_pools and its
\* return; and the records of each exchange are in the aggregate in the
\* order of their addresses in the caller's list.
C20_SequentialOrder ==
    /\ \A i \in ExchangeEventsAt(trace, "pump"), j \in ExchangeEventsAt(trace, "raydium") :
         i < j
    /\ \A i \in 1..Len(trace) :
         trace[i].ev = "fetch_pools" =>
            LET list == CallerList(trace[i].dex) IN
            /\ trace[i].n = Len(list)
            /\ \A k \in 1..Len(list) :
                 (i + k <= Len(trace))
                 => (/\ trace[i + k].ev \in {"pool_read", "pool_bad_address"}
                     /\ trace[i + k].dex = trace[i].dex
                     /\ trace[i + k].addr = list[k])
            /\ (i + Len(list) + 1 <= Len(trace))
               => (/\ trace[i + Len(list) + 1].ev = "fetch_pools_returned"
                   /\ trace[i + Len(list) + 1].dex = trace[i].dex)
    /\ (pc = "idle" /\ calls > 0 /\ result.ok /\ ~ServedFromCache)
       => (/\ PoolSeq(result.v.pump_pools) = AcceptedInOrder(trace, "pump")
           /\ PoolSeq(result.v.raydium_pools) = AcceptedInOrder(trace, "raydium"))

\* A call read a, c for pump and then d, g for raydium, and returned the
\* Raydium records in the order d, g.
C20_Witness ==
    /\ pc = "idle"
    /\ calls > 0
    /\ result.ok
    /\ args.pump_pools = Some(<< <<"a">>, <<"c">> >>)
    /\ args.raydium_pools = Some(<< <<"d">>, <<"g">> >>)
    /\ PoolSeq(result.v.pump_pools) = << <<"a">> >>
    /\ PoolSeq(result.v.raydium_pools) = << <<"d">>, <<"g">> >>

\* The Pump records of the aggregates the call holds, has returned or has
\* cached.
PumpRecordsInAggregates ==
    (IF pool_data.some
     THEN {pool_data.v.pump_pools[i] : i \in 1..Len(pool_data.v.pump_pools)}
     ELSE {})
    \cup (IF pc = "idle" /\ calls > 0 /\ result.ok
          THEN {result.v.pump_pools[i] : i \in 1..Len(result.v.pump_pools)}
          ELSE {})
    \cup UNION {{cache[k].data.pump_pools[i] : i \in 1..Len(cache[k].data.pump_pools)} :
                   k \in DOMAIN cache}

\* C21: no Pump record placed in an aggregate carries the zero address as
\* coin_creator_vault_authority: when the descriptor's auxiliary mapping has
\* no creator-vault authority, the pool is left out (or the field is marked
\* unset), never defaulted to the zero address.
C21_NoZeroCreatorVaultAuthority ==
    \A r \in PumpRecordsInAggregates :
        r.coin_creator_vault_authority # PubkeyDefault

\* The entries of the offset map that the macro decodes and whose range
\* offset..offset+32 exceeds the buffer.
EntriesOutOfRange ==
    {i \in 1..Len(offset_map) :
        /\ offset_map[i].field_name \in ParsedFields
        /\ offset_map[i].offset + 32 > Len(account_data)}

\* C22: decoding with parse_pool_account never reads outside the buffer:
\* for every buffer and offset map, a field whose range offset..offset+32
\* exceeds the buffer length gives a pool-parse failure value, not a panic
\* on an out-of-bounds access.
C22_OutOfRangeIsPoolParse ==
    (parse_result # NotParsed /\ EntriesOutOfRange # {})
    => (/\ ~parse_result.panicked
        /\ ~parse_result.v.ok
        /\ parse_result.v.e.kind = "PoolParse")

\* The call has returned: an aggregate or an error.
Terminated == pc = "idle" /\ calls > 0 /\ result # NoResult

\* C23: if every account read returns (with a success or a failure) and
\* every retry delay elapses, every call of initialize_pool_data terminates,
\* returning an aggregate or an error, whatever the lists of pool addresses
\* and max_retries.
C23_CallTerminates == (pc # "idle") ~> Terminated

\* A call with max_retries >= 2 has returned its aggregate after a failed
\* mint read, a delay, and reads of the pools of both exchanges.
C23_Witness ==
    /\ Terminated
    /\ result.ok
    /\ config.max_retries >= 2
    /\ DelaysAt(trace) # {}
    /\ \E i, j \in 1..Len(trace) :
         /\ trace[i].ev = "pool_read" /\ trace[i].dex = "pump"
         /\ trace[j].ev = "pool_read" /\ trace[j].dex = "raydium"

\* C24: with max_retries = 0, fetch_account_with_retry makes no read and
\* takes no delay and returns a failure with no underlying error; the
\* unsigned max_retries - 1 is never evaluated where it would underflow, so
\* nothing panics or wraps.
C24_ZeroRetries ==
    /\ \A i \in MintReadsAt(trace) : ~trace[i].underflow
    /\ pc # "panicked"
    /\ config.max_retries = 0 =>
          /\ pc = "idle"
          /\ MintReadsAt(trace) = {} /\ DelaysAt(trace) = {}
          /\ (calls > 0 /\ ~ServedFromCache /\ PubkeyFromStr(args.mint).ok)
             => result = Err([kind |-> "FetchAccountFailed", pubkey |-> args.mint,
                              attempts |-> 0, last_error |-> None])

\* A call for mint A, which has an account, has failed with max_retries = 0,
\* with nothing read and no underlying error.
C24_Witness ==
    /\ config.max_retries = 0
    /\ pc = "idle"
    /\ calls > 0
    /\ args.mint = <<"A">>
    /\ trace = <<>>
    /\ ~result.ok
    /\ result.e.kind = "FetchAccountFailed"
    /\ result.e.last_error = None

\* C25: a call returns a cached aggregate only if an earlier call with the
\* same mint string and the same wallet string stored it: no two distinct
\* (mint, wallet) pairs share a cache key, although the key is
\* mint + "_" + wallet and the cache check comes before the mint is parsed.
C25_HitOnlyForSamePair ==
    (pc = "idle" /\ calls > 0 /\ ServedFromCache)
    => LET stored == lastOk[<<args.mint, args.wallet_account>>] IN
       /\ stored.some
       /\ result = Ok(stored.v.data)
       /\ result.v.mint = args.mint
       /\ result.v.wallet_account = args.wallet_account
====
